---- MODULE Spec2Model ----
(***************************************************************************)
(* The A* fingering engine of src/unnamed/part_000 (Phase III pseudocode,  *)
(* engine version 3.4): computeFingerings, generateSuccessors,             *)
(* calculateEdgeCost and their helpers.                                    *)
(*                                                                         *)
(* Numbers.  Rows and columns of buttons are integers.  A centroid is the  *)
(* mean of at most five integers, so it is kept exactly in units of 1/60   *)
(* of a row or column.  Costs and millimetres are kept in hundredths,      *)
(* rounded down, where the pseudocode uses floating point.                 *)
(*                                                                         *)
(* The browser front end: status polling (src/js/api.js pollStatus and     *)
(* src/frontend/js/app.js pollProcessingStatus), the viewer's upload       *)
(* pipeline (src/js/theme-toggle.js handleFile), the upload page           *)
(* controller (src/frontend/js/app.js handleProcess) and the playback      *)
(* controls (src/js/score_controls.js).  An async function is one action   *)
(* per stretch of code between two awaits; a timer callback is an action   *)
(* that any live timer may take.                                           *)
(***************************************************************************)
EXTENDS Integers, Sequences, FiniteSets, TLC

\* ------------------------------------------------------------------ bounds
MaxEvents == 2

MaxChain == 3

\* events with two new notes are drawn only among the first MaxChordDepth
MaxChordDepth == 1

\* the largest node-expansion budget a caller asks for
MaxBudget == 1

\* the number of popped nodes put through the closed-set test in a row
MaxVisits == 3

\* the accumulated costs (in hundredths) those popped nodes are given
MaxG == 2

\* the status requests one poll issues
MaxRequests == 3

\* the files handed to the viewer's handleFile
MaxFiles == 2

\* the uploads the upload page starts
MaxRuns == 2

\* the interval timers startTimeUpdate has running at once
MaxTimers == 3

\* the calls of initializeScoreControls
MaxInits == 2

\* --------------------------------------------------------------- constants
ROW_SPACING_MM == 15

COL_SPACING_MM == 18

MAX_HAND_SPAN_MM == 150

WEIGHT_DISTANCE == 1

WEIGHT_ROW_JUMP == 2

PENALTY_CROSSING == 50

\* BONUS_BELLOWS_SHIFT = 0.7, in tenths
BONUS_BELLOWS_SHIFT == 7

\* FACTOR_PIVOT_REDUCTION is named but never given a value; 0.5, in tenths
FACTOR_PIVOT_REDUCTION == 5

ENABLE_FINGER_STRENGTH_BIAS == TRUE

\* "Thumb crossing Pinky by > 2 rows"
INVERSION_ROW_LIMIT == 2

START_CENTROID_ROW == 3

START_CENTROID_COL == 0

BELLOWS_NEUTRAL == "neutral"

\* centroids are stored multiplied by CentroidScale (lcm of 1..5)
CentroidScale == 3 * 4 * 5

\* costs and millimetres are stored multiplied by CostScale
CostScale == 10 * 10

FingerIdx == 1..5

\* getFingerWeaknessTable, in hundredths
getFingerWeaknessTable(finger_index) ==
    CASE finger_index = 1 -> 0
      [] finger_index = 2 -> 0
      [] finger_index = 3 -> 10
      [] finger_index = 4 -> 80
      [] finger_index = 5 -> 40

\* ------------------------------------------------------------------ layout
NoButton == <<>>

NoPitch == 0

\* how a call ends: with the value it returns, or with the error it raises
Returns(v) == [raised |-> "none", value |-> v]

Raises(kind) == [raised |-> kind, value |-> {}]

\* getPhysicalButtonOptions: pitch -> the non-empty set of candidate
\* <<row, column>> buttons; it fails with UnmappablePitchError for a pitch
\* the layout has no button for
getPhysicalButtonOptions(midi) ==
    CASE midi = 60 -> Returns({<<2, 5>>})
      [] midi = 62 -> Returns({<<5, 6>>, <<3, 14>>})
      [] midi = 64 -> Returns({<<2, 14>>})
      [] OTHER -> Raises("UnmappablePitchError")

\* ------------------------------------------------------------------ events
Note(m, t) == [midi |-> m, tied_from_prev |-> t]

Event(ns, b, d) == [notes |-> ns, bellows_direction |-> b, is_downbeat |-> d]

\* the events the inputs are built from ("null" = no bellows direction)
EventPool ==
    { Event(<<Note(60, FALSE)>>, "null", FALSE),
      Event(<<Note(62, FALSE)>>, "push", TRUE),
      Event(<<Note(60, TRUE)>>, "null", FALSE),
      Event(<<Note(60, FALSE), Note(64, FALSE)>>, "null", FALSE),
      Event(<<Note(60, FALSE), Note(62, FALSE)>>, "pull", TRUE),
      Event(<<Note(62, TRUE), Note(60, FALSE)>>, "push", FALSE),
      Event(<<Note(61, FALSE)>>, "null", FALSE),
      Event(<<>>, "pull", FALSE) }

RECURSIVE SeqsUpTo(_, _)
SeqsUpTo(S, n) ==
    IF n = 0 THEN {<<>>}
    ELSE LET shorter == SeqsUpTo(S, n - 1)
         IN  shorter \cup {Append(s, e) : s \in {q \in shorter : Len(q) = n - 1}, e \in S}

\* ----------------------------------------------------------------- numbers
Abs(x) == IF x < 0 THEN -x ELSE x

Max0(x) == IF x > 0 THEN x ELSE 0

\* bisection for the square root of p[1] between p[2] and p[3]
SqrtSearch[p \in (0..1073741823) \X (0..32767) \X (0..32767)] ==
    IF p[2] = p[3] THEN p[2]
    ELSE IF ((p[2] + p[3] + 1) \div 2) * ((p[2] + p[3] + 1) \div 2) <= p[1]
         THEN SqrtSearch[<<p[1], (p[2] + p[3] + 1) \div 2, p[3]>>]
         ELSE SqrtSearch[<<p[1], p[2], ((p[2] + p[3] + 1) \div 2) - 1>>]

\* floor of the square root, x < 2^30
ISqrt(x) == SqrtSearch[<<x, 0, 32767>>]

\* the square root in tenths, rounded up, of a whole number v
SqrtTenthsUp(v) ==
    CHOOSE t \in {IF r * r = 100 * v THEN r ELSE r + 1 : r \in {ISqrt(100 * v)}} : TRUE

\* the sum of f over the fingers in S
SumOver(S, f) ==
    LET term(i) == IF i \in S THEN f[i] ELSE 0
    IN  term(1) + term(2) + term(3) + term(4) + term(5)

\* ----------------------------------------------------------------- fingers
FREE(i) == [index |-> i, status |-> "free", button |-> NoButton, midi_note |-> NoPitch]

Pressing(i, b, m) == [index |-> i, status |-> "pressing", button |-> b, midi_note |-> m]

\* positions of the node's non-free fingers
ActiveFingers(fingers) == {i \in 1..Len(fingers) : fingers[i].status # "free"}

Row(f) == f.button[1]

Col(f) == f.button[2]

\* variant: the column delta is scaled by the row spacing
PairDistSqRowSpacing(f1, f2) ==
    LET d_row == (Row(f1) - Row(f2)) * ROW_SPACING_MM
        d_col == (Col(f1) - Col(f2)) * ROW_SPACING_MM
    IN  d_row * d_row + d_col * d_col

\* squared physical distance, in mm^2, between two pressed fingers
PairDistSq(f1, f2) ==
    LET d_row == (Row(f1) - Row(f2)) * ROW_SPACING_MM
        d_col == (Col(f1) - Col(f2)) * COL_SPACING_MM
    IN  d_row * d_row + d_col * d_col

SpanSq(fingers) ==
    LET act == ActiveFingers(fingers)
        ds  == {PairDistSq(fingers[i], fingers[j]) : i \in act, j \in act}
    IN  IF ds = {} THEN 0 ELSE CHOOSE d \in ds : \A e \in ds : e <= d

\* calculateSpanMM, in hundredths of a millimetre, rounded up
calculateSpanMM(node) ==
    CHOOSE mm \in {SqrtTenthsUp(sq) * 10 : sq \in {SpanSq(node.fingers)}} : TRUE

\* variant: a lower-index finger on the same column counts as well
InvertedPairsOrEqual(node) ==
    LET act == ActiveFingers(node.fingers)
    IN  {p \in act \X act :
            /\ node.fingers[p[1]].index < node.fingers[p[2]].index
            /\ Col(node.fingers[p[1]]) >= Col(node.fingers[p[2]])}

\* isGeometricInversion: a lower-index finger on a strictly higher column
InvertedPairs(node) ==
    LET act == ActiveFingers(node.fingers)
    IN  {p \in act \X act :
            /\ node.fingers[p[1]].index < node.fingers[p[2]].index
            /\ Col(node.fingers[p[1]]) > Col(node.fingers[p[2]])}

isGeometricInversion(node) == InvertedPairs(node) # {}

\* getCrossingSeverity: the number of inverted finger pairs
getCrossingSeverity(node) == Cardinality(InvertedPairs(node))

\* isGeometricInversionImpossible: an inversion across more than the row limit
isGeometricInversionImpossible(node) ==
    \E p \in InvertedPairs(node) :
        Abs(Row(node.fingers[p[1]]) - Row(node.fingers[p[2]])) > INVERSION_ROW_LIMIT

\* hasPivotFinger: some finger stays on the same button
hasPivotFinger(prev_node, next_node) ==
    \E i \in ActiveFingers(prev_node.fingers) \cap ActiveFingers(next_node.fingers) :
        prev_node.fingers[i].button = next_node.fingers[i].button

\* ------------------------------------------------------------------- nodes
NoParent == <<>>

\* heuristic: the exact formula is left open; 0 is an admissible lower bound
heuristic(node, events) == 0

\* the initial "Neutral Hand" state
start_node(events) ==
    [ time_index    |-> -1,
      fingers       |-> [i \in FingerIdx |-> FREE(i)],
      centroid_row  |-> START_CENTROID_ROW * CentroidScale,
      centroid_col  |-> START_CENTROID_COL * CentroidScale,
      span_width_mm |-> 0,
      bellows_state |-> BELLOWS_NEUTRAL,
      g_score       |-> 0,
      h_score       |-> 0,
      f_score       |-> 0,
      parent        |-> NoParent ]

\* clone: a copy of every field
clone(node) == node

\* recalculateGeometry: centroid and span of the non-free fingers
recalculateGeometry(node) ==
    LET act  == ActiveFingers(node.fingers)
        n    == Cardinality(act)
        rows == [i \in act |-> Row(node.fingers[i])]
        cols == [i \in act |-> Col(node.fingers[i])]
    IN  IF n = 0
        THEN [node EXCEPT !.span_width_mm = 0]
        ELSE [node EXCEPT
                !.centroid_row  = (SumOver(act, rows) * CentroidScale) \div n,
                !.centroid_col  = (SumOver(act, cols) * CentroidScale) \div n,
                !.span_width_mm = calculateSpanMM(node)]

\* ------------------------------------------------------ generateSuccessors
NoteIdx(event) == 1..Len(event.notes)

TiedIdx(event) == {k \in NoteIdx(event) : event.notes[k].tied_from_prev}

NewIdx(event) == {k \in NoteIdx(event) : ~event.notes[k].tied_from_prev}

\* the pitches current_holding_map has a key for
HeldPitches(node) == {node.fingers[i].midi_note : i \in ActiveFingers(node.fingers)}

\* current_holding_map: a later finger overwrites an earlier one on the same pitch
current_holding_map(node, midi) ==
    LET holders == {i \in ActiveFingers(node.fingers) : node.fingers[i].midi_note = midi}
    IN  CHOOSE i \in holders : \A j \in holders : j <= i

\* Step A fails: some tied note is held by no finger of the current node
TieInconsistent(current_node, target_event) ==
    \E k \in TiedIdx(target_event) :
        target_event.notes[k].midi \notin HeldPitches(current_node)

\* Step A: positions of the fingers locked by the tied notes
locked_fingers(current_node, target_event) ==
    {current_holding_map(current_node, target_event.notes[k].midi) : k \in TiedIdx(target_event)}

free_fingers(current_node, target_event) ==
    {i \in 1..Len(current_node.fingers) : i \notin locked_fingers(current_node, target_event)}

\* variant: a new note may be given a button from another note's options
valid_assignmentsAnyButton(current_node, target_event) ==
    LET new  == NewIdx(target_event)
        free == free_fingers(current_node, target_event)
        opts == UNION {getPhysicalButtonOptions(target_event.notes[k].midi).value : k \in new}
    IN  {a \in [new -> [finger : free, button : opts]] :
            \A k1 \in new : \A k2 \in new : k1 # k2 => a[k1].finger # a[k2].finger}

\* Step C ends the call: Step A has not returned [] and the lookup of a new
\* note's buttons fails; nothing in generateSuccessors catches the error
ButtonExpansionFails(current_node, target_event) ==
    /\ ~TieInconsistent(current_node, target_event)
    /\ \E k \in NewIdx(target_event) :
          getPhysicalButtonOptions(target_event.notes[k].midi).raised # "none"

\* Steps C and D, permutate: every way to give each new note its own free
\* finger and one of its candidate buttons
valid_assignments(current_node, target_event) ==
    LET new  == NewIdx(target_event)
        free == free_fingers(current_node, target_event)
        opts == UNION {getPhysicalButtonOptions(target_event.notes[k].midi).value : k \in new}
    IN  {a \in [new -> [finger : free, button : opts]] :
            /\ \A k \in new :
                  a[k].button \in getPhysicalButtonOptions(target_event.notes[k].midi).value
            /\ \A k1 \in new : \A k2 \in new : k1 # k2 => a[k1].finger # a[k2].finger}

\* variant: the locked finger is written one slot after its own
ApplyLockedShifted(fingers, source, locked) ==
    [i \in 1..Len(fingers) |->
        IF \E p \in locked : source[p].index + 1 = i
        THEN source[CHOOSE p \in locked : source[p].index + 1 = i]
        ELSE fingers[i]]

\* "Apply Locked Fingers (Keep state)": next_node.fingers[lf.index] = lf
ApplyLocked(fingers, source, locked) ==
    [i \in 1..Len(fingers) |->
        IF \E p \in locked : source[p].index = i
        THEN source[CHOOSE p \in locked : source[p].index = i]
        ELSE fingers[i]]

\* variant: a finger that is given no note and holds no tied pitch is freed
updateFingersFreeing(fingers, assignment, target_event) ==
    [i \in 1..Len(fingers) |->
        IF \E k \in DOMAIN assignment : assignment[k].finger = i
        THEN LET k == CHOOSE k \in DOMAIN assignment : assignment[k].finger = i
             IN  Pressing(i, assignment[k].button, target_event.notes[k].midi)
        ELSE IF \E k \in TiedIdx(target_event) :
                    target_event.notes[k].midi = fingers[i].midi_note
             THEN fingers[i]
             ELSE FREE(i)]

\* updateFingers: the assigned fingers press their new buttons
updateFingers(fingers, assignment, target_event) ==
    [i \in 1..Len(fingers) |->
        IF \E k \in DOMAIN assignment : assignment[k].finger = i
        THEN LET k == CHOOSE k \in DOMAIN assignment : assignment[k].finger = i
             IN  Pressing(i, assignment[k].button, target_event.notes[k].midi)
        ELSE fingers[i]]

\* the body of the loop over valid_assignments, before the hard filters
NextNode(current_node, target_event, assignment) ==
    CHOOSE next_node \in
        { recalculateGeometry([clone(current_node) EXCEPT !.fingers = uf]) :
            uf \in { updateFingers(lf, assignment, target_event) :
                       lf \in { ApplyLocked(clone(current_node).fingers,
                                            current_node.fingers,
                                            locked_fingers(current_node, target_event)) } } } :
        TRUE

\* Step E: the physical hard filters
SpanTooWide(node) == calculateSpanMM(node) > MAX_HAND_SPAN_MM * CostScale

PassesHardFilters(node) ==
    /\ ~SpanTooWide(node)
    /\ ~isGeometricInversionImpossible(node)

\* the assignments whose node survives Step E
SurvivingAssignments(current_node, target_event) ==
    IF TieInconsistent(current_node, target_event) THEN {}
    ELSE {a \in valid_assignments(current_node, target_event) :
             \E next_node \in {NextNode(current_node, target_event, a)} :
                 PassesHardFilters(next_node)}

\* the successors returned, or the error of the button lookup passed on
generateSuccessors(current_node, target_event) ==
    IF ButtonExpansionFails(current_node, target_event)
    THEN Raises("UnmappablePitchError")
    ELSE Returns({NextNode(current_node, target_event, a) :
                    a \in SurvivingAssignments(current_node, target_event)})

\* ------------------------------------------------------- calculateEdgeCost
\* distance between the centroids, in hundredths of a millimetre
distance(prev_node, next_node) ==
    LET d_row == (prev_node.centroid_row - next_node.centroid_row) * ROW_SPACING_MM
        d_col == (prev_node.centroid_col - next_node.centroid_col) * COL_SPACING_MM
    IN  ISqrt(((d_row * d_row + d_col * d_col) \div 9) * 25)

BellowsChanged(prev_node, event) ==
    /\ event.bellows_direction # "null"
    /\ event.bellows_direction # prev_node.bellows_state

\* variant: the multiplier is applied to the distance and the penalties alike
total_costScaledPenalty(prev_node, next_node, event) ==
    LET row_delta == Abs(prev_node.centroid_row - next_node.centroid_row)
        additive  == distance(prev_node, next_node) * WEIGHT_DISTANCE
                     + (row_delta * WEIGHT_ROW_JUMP * CostScale) \div CentroidScale
        crossing  == IF isGeometricInversion(next_node)
                     THEN getCrossingSeverity(next_node) * PENALTY_CROSSING * CostScale
                     ELSE 0
        act       == ActiveFingers(next_node.fingers)
        weakness  == IF ENABLE_FINGER_STRENGTH_BIAS /\ event.is_downbeat
                     THEN SumOver(act, [i \in act |->
                              getFingerWeaknessTable(next_node.fingers[i].index)])
                     ELSE 0
        cost_distance == IF BellowsChanged(prev_node, event)
                         THEN (additive * (10 - BONUS_BELLOWS_SHIFT)) \div 10
                         ELSE additive
    IN  IF hasPivotFinger(prev_node, next_node)
        THEN ((cost_distance + crossing + weakness) * FACTOR_PIVOT_REDUCTION) \div 10
        ELSE cost_distance + crossing + weakness

\* the sum before the clamp, in hundredths
total_cost(prev_node, next_node, event) ==
    LET row_delta == Abs(prev_node.centroid_row - next_node.centroid_row)
        additive  == distance(prev_node, next_node) * WEIGHT_DISTANCE
                     + (row_delta * WEIGHT_ROW_JUMP * CostScale) \div CentroidScale
        crossing  == IF isGeometricInversion(next_node)
                     THEN getCrossingSeverity(next_node) * PENALTY_CROSSING * CostScale
                     ELSE 0
        act       == ActiveFingers(next_node.fingers)
        weakness  == IF ENABLE_FINGER_STRENGTH_BIAS /\ event.is_downbeat
                     THEN SumOver(act, [i \in act |->
                              getFingerWeaknessTable(next_node.fingers[i].index)])
                     ELSE 0
        cost_penalty  == crossing + weakness
        cost_distance == IF BellowsChanged(prev_node, event)
                         THEN (additive * (10 - BONUS_BELLOWS_SHIFT)) \div 10
                         ELSE additive
        scaled        == IF hasPivotFinger(prev_node, next_node)
                         THEN (cost_distance * FACTOR_PIVOT_REDUCTION) \div 10
                         ELSE cost_distance
    IN  scaled + cost_penalty

\* variant: the bellows bonus is taken off the total and nothing is clamped
calculateEdgeCostSubtractive(prev_node, next_node, event) ==
    total_cost(prev_node, next_node, event)
    - (IF BellowsChanged(prev_node, event) THEN BONUS_BELLOWS_SHIFT * CostScale ELSE 0)

calculateEdgeCost(prev_node, next_node, event) ==
    Max0(total_cost(prev_node, next_node, event))

\* --------------------------------------------------------------- front end
VARIABLES poller, interval, requests, sent, promise, progress, loads, loading,
          viewerState, pipelines, rendered, viewerError, viewerHealth,
          appState, elements, run, jobs, appError, appHealth,
          playbackState, timers, listeners

pollVars == <<poller, interval, requests, sent, promise, progress, loads, loading>>

viewerVars == <<viewerState, pipelines, rendered, viewerError, viewerHealth>>

appVars == <<appState, elements, run, jobs, appError, appHealth>>

playVars == <<playbackState, timers, listeners>>

uiVars == <<pollVars, viewerVars, appVars, playVars>>

\* no job id yet (null); nothing in the score container
NoJob == 0

\* no file selected (null)
NoFile == <<>>

\* the files a user can drop or select: extension of the name, size in MB
FilePool == [ext : {".pdf", ".PDF", ".txt", ".musicxml"}, mb : {1, 11}]

\* 10 * 1024 * 1024 bytes, in MB
maxFileSize == 10

\* the calls of a polling function, named by the job polled
PollIds == 1..(IF MaxRuns > MaxFiles THEN MaxRuns ELSE MaxFiles)

\* no poll running
PollIdle ==
    /\ poller = "pollStatus"
    /\ interval = [j \in PollIds |-> FALSE]
    /\ requests = [j \in PollIds |-> 0]
    /\ sent = [j \in PollIds |-> 0]
    /\ promise = [j \in PollIds |-> "pending"]
    /\ progress = [j \in PollIds |-> 0]
    /\ loads = [j \in PollIds |-> 0]
    /\ loading = [j \in PollIds |-> 0]

\* the state object of the viewer (theme-toggle.js), without currentHand
ViewerState(job, res, treble, bass, processing) ==
    [ currentJobId |-> job,
      results      |-> res,
      trebleLayout |-> treble,
      bassLayout   |-> bass,
      isProcessing |-> processing ]

\* one call of handleFile or handleMusicXMLSelect: the await it is
\* suspended at, and whether the treble layout of its results has a system
Pipeline(stage, system) == [stage |-> stage, system |-> system]

\* the viewer's module has been loaded and init has called
\* checkBackendHealth, which awaits the health check
ViewerIdle ==
    /\ viewerState = ViewerState(NoJob, NoJob, NoJob, NoJob, FALSE)
    /\ pipelines = [p \in 1..MaxFiles |-> Pipeline("none", TRUE)]
    /\ rendered = NoJob
    /\ viewerError = ""
    /\ viewerHealth = "pending"

\* the state object of app.js, without the selected layouts
AppState(file, job, processing, data) ==
    [ currentFile    |-> file,
      currentJobId   |-> job,
      isProcessing   |-> processing,
      processingData |-> data ]

\* the parts of the page app.js writes to
Elements(disabled, prog, vis) ==
    [ processBtn_disabled  |-> disabled,
      progressSection      |-> prog,
      visualizationSection |-> vis ]

\* app.js has been loaded and init has called checkBackendConnection
AppIdle ==
    /\ appState = AppState(NoFile, NoJob, FALSE, NoJob)
    /\ elements = Elements(TRUE, "none", "none")
    /\ run = "idle"
    /\ jobs = 0
    /\ appError = ""
    /\ appHealth = "pending"

\* calculateDuration: playbackState.totalTime = 120, in seconds
TotalTime == 120

\* currentTime is kept as the number of additions of 0.1 since it was last
\* 0.  In double arithmetic 1200 additions give 119.99999999999746, so
\* currentTime >= 120 first holds after one more; against a totalTime of 0
\* it holds at once.
TicksToEnd(totalTime) == IF totalTime = 0 THEN 0 ELSE totalTime * 10 + 1

PlaybackState(playing, t, total) ==
    [isPlaying |-> playing, currentTime |-> t, totalTime |-> total]

\* score_controls.js has been loaded: no listener is set yet
PlayIdle ==
    /\ playbackState = PlaybackState(FALSE, 0, 0)
    /\ timers = 0
    /\ listeners = 0

UiIdle ==
    /\ PollIdle
    /\ ViewerIdle
    /\ AppIdle
    /\ PlayIdle

\* ------------------------------------------------------- computeFingerings
VARIABLES events, options, pc, open_set, closed_set, result, expansions,
          gNode, gPrev, gEvent, gAssign, gPrevAssign, gCost, gDepth, gBellows,
          visit, visits,
          calls, queues, maps, last_call

searchVars == <<events, options, pc, open_set, closed_set, result, expansions>>

chainVars == <<gNode, gPrev, gEvent, gAssign, gPrevAssign, gCost, gDepth, gBellows>>

visitVars == <<visit, visits>>

callVars == <<calls, queues, maps, last_call>>

vars == <<events, options, pc, open_set, closed_set, result, expansions,
          gNode, gPrev, gEvent, gAssign, gPrevAssign, gCost, gDepth, gBellows,
          visit, visits,
          calls, queues, maps, last_call,
          poller, interval, requests, sent, promise, progress, loads, loading,
          viewerState, pipelines, rendered, viewerError, viewerHealth,
          appState, elements, run, jobs, appError, appHealth,
          playbackState, timers, listeners>>

NoEvent == Event(<<>>, "null", FALSE)

\* what the caller asks for besides the score: a starting bellows state
\* ("unset" = none given) and a node-expansion budget (0 = none configured)
Options(b, n) == [start_bellows |-> b, node_budget |-> n]

NoOptions == Options("unset", 0)

OptionPool == {Options(b, n) : b \in {"unset", "push", "pull"}, n \in 0..MaxBudget}

NoResult == [kind |-> "none", path |-> <<>>, total_cost |-> 0]

\* variant: an exhausted search hands back what it has as a solution
FailureAsPartial == [kind |-> "solution", path |-> <<>>, total_cost |-> 0]

\* return FAILURE
FAILURE == [kind |-> "NoFeasiblePath", path |-> <<>>, total_cost |-> 0]

\* computeFingerings ends with an error raised inside it: it catches none
Raised(kind) == [kind |-> kind, path |-> <<>>, total_cost |-> 0]

\* calculateHash: {time_index, finger_status[], button_ids[]}
calculateHash(node) ==
    <<node.time_index,
      [i \in 1..Len(node.fingers) |-> node.fingers[i].status],
      [i \in 1..Len(node.fingers) |-> node.fingers[i].button]>>

\* reconstructPath: follow the parent pointers; the start node has none
RECURSIVE reconstructPath(_)
reconstructPath(node) ==
    IF node.parent = NoParent THEN <<>>
    ELSE Append(reconstructPath(node.parent[1]), node)

\* variant: the start node is kept as the first entry of the path
SolutionWithStart(node) ==
    [kind |-> "solution", path |-> <<node>> \o reconstructPath(node),
     total_cost |-> node.g_score]

Solution(node) ==
    [kind |-> "solution", path |-> reconstructPath(node), total_cost |-> node.g_score]

\* variant: the goal test accepts a node at or before the last event
IsGoalAtMost(node, evs) == node.time_index <= Len(evs) - 1

\* Goal Check: have we fingered the last event?
IsGoal(node, evs) == node.time_index = Len(evs) - 1

\* pop_lowest_f_score: the candidates for the pop (ties are not ordered)
LowestF(open) == {n \in open : \A m \in open : n.f_score <= m.f_score}

\* variant: only a strictly costlier node counts as already closed
AlreadyClosedStrict(node, closed) ==
    \E c \in closed : c[1] = calculateHash(node) /\ node.g_score > c[2].g_score

\* the deduplication test against the closed set
AlreadyClosed(node, closed) ==
    \E c \in closed : c[1] = calculateHash(node) /\ node.g_score >= c[2].g_score

\* closed_set.add(state_hash, current_node)
ClosedAdd(closed, node) ==
    {c \in closed : c[1] # calculateHash(node)} \cup {<<calculateHash(node), node>>}

tentative_g(current_node, neighbor, target_event) ==
    current_node.g_score + calculateEdgeCost(current_node, neighbor, target_event)

\* if tentative_g < neighbor.g_score
Improves(tg, neighbor) == tg < neighbor.g_score

\* the neighbor as it is pushed
Relaxed(current_node, neighbor, tg, evs) ==
    [neighbor EXCEPT !.parent  = <<current_node>>,
                     !.g_score = tg,
                     !.h_score = heuristic(neighbor, evs),
                     !.f_score = tg + heuristic(neighbor, evs)]

\* steps 4 to 6: the nodes one expansion pushes
Pushed(current_node, evs) ==
    LET target_event == evs[current_node.time_index + 2]
        candidates   == generateSuccessors(current_node, target_event).value
    IN  {Relaxed(current_node, nb, tentative_g(current_node, nb, target_event), evs) :
            nb \in {c \in candidates :
                      Improves(tentative_g(current_node, c, target_event), c)}}

ChainIdle ==
    /\ gNode = start_node(<<>>)
    /\ gPrev = start_node(<<>>)
    /\ gEvent = NoEvent
    /\ gAssign = <<>>
    /\ gPrevAssign = <<>>
    /\ gCost = 0
    /\ gDepth = 0
    /\ gBellows = BELLOWS_NEUTRAL

\* what the last closed-set test saw: the node popped, whether its hash had
\* an entry and with which g, and whether the node was skipped
Visit(node, has, g, skip) ==
    [node |-> node, has_entry |-> has, recorded_g |-> g, skipped |-> skip]

VisitIdle ==
    /\ visit = Visit(start_node(<<>>), FALSE, 0, FALSE)
    /\ visits = 0

\* the invocations of computeFingerings that run side by side
CallIds == 1..2

\* no PriorityQueue or HashMap made yet
NoInstance == 0

Call(evs, p, res, o, c) ==
    [events |-> evs, pc |-> p, result |-> res, open_ref |-> o, closed_ref |-> c]

CallsIdle ==
    /\ calls = [i \in CallIds |-> Call(<<>>, "idle", NoResult, NoInstance, NoInstance)]
    /\ queues = [r \in {NoInstance} \cup CallIds |-> {}]
    /\ maps = [r \in {NoInstance} \cup CallIds |-> {}]
    /\ last_call = 0

Init ==
    /\ UiIdle
    /\ events \in SeqsUpTo(EventPool, MaxEvents)
    /\ options \in OptionPool
    /\ pc = "init"
    /\ open_set = {}
    /\ closed_set = {}
    /\ result = NoResult
    /\ expansions = 0
    /\ ChainIdle
    /\ VisitIdle
    /\ CallsIdle

\* 2. A* Initialization
Initialize ==
    /\ pc = "init"
    /\ open_set' = {start_node(events)}
    /\ closed_set' = {}
    /\ pc' = "loop"
    /\ UNCHANGED <<events, options, result, expansions>>
    /\ UNCHANGED <<chainVars, visitVars, callVars, uiVars>>

\* variant: the lowest node is read but left in the open set
IteratePeek ==
    /\ pc = "loop"
    /\ open_set # {}
    /\ \E current_node \in LowestF(open_set) :
          IF IsGoal(current_node, events)
          THEN /\ result' = Solution(current_node)
               /\ pc' = "done"
               /\ UNCHANGED <<open_set, closed_set, expansions>>
          ELSE IF AlreadyClosed(current_node, closed_set)
          THEN UNCHANGED <<open_set, closed_set, result, pc, expansions>>
          ELSE /\ closed_set' = ClosedAdd(closed_set, current_node)
               /\ expansions' = expansions + 1
               /\ IF ButtonExpansionFails(current_node, events[current_node.time_index + 2])
                  THEN /\ result' = Raised("UnmappablePitchError")
                       /\ pc' = "done"
                       /\ UNCHANGED open_set
                  ELSE /\ open_set' = open_set \cup Pushed(current_node, events)
                       /\ UNCHANGED <<result, pc>>
    /\ UNCHANGED <<events, options>>
    /\ UNCHANGED <<chainVars, visitVars, callVars, uiVars>>

\* one iteration of the pathfinding loop
Iterate ==
    /\ pc = "loop"
    /\ open_set # {}
    /\ \E current_node \in LowestF(open_set) :
          LET rest == open_set \ {current_node}
          IN  IF IsGoal(current_node, events)
              THEN /\ result' = Solution(current_node)
                   /\ pc' = "done"
                   /\ open_set' = rest
                   /\ UNCHANGED <<closed_set, expansions>>
              ELSE IF AlreadyClosed(current_node, closed_set)
              THEN /\ open_set' = rest
                   /\ UNCHANGED <<closed_set, result, pc, expansions>>
              ELSE /\ closed_set' = ClosedAdd(closed_set, current_node)
                   /\ expansions' = expansions + 1
                   /\ IF ButtonExpansionFails(current_node,
                                               events[current_node.time_index + 2])
                      THEN /\ result' = Raised("UnmappablePitchError")
                           /\ pc' = "done"
                           /\ open_set' = rest
                      ELSE /\ open_set' = rest \cup Pushed(current_node, events)
                           /\ UNCHANGED <<result, pc>>
    /\ UNCHANGED <<events, options>>
    /\ UNCHANGED <<chainVars, visitVars, callVars, uiVars>>

\* the loop ends with the open set empty
Fail ==
    /\ pc = "loop"
    /\ open_set = {}
    /\ result' = FAILURE
    /\ pc' = "done"
    /\ UNCHANGED <<events, options, open_set, closed_set, expansions>>
    /\ UNCHANGED <<chainVars, visitVars, callVars, uiVars>>

Next == Initialize \/ Iterate \/ Fail

Spec == Init /\ [][Next]_vars

\* the loop runs to completion: nothing else is scheduled against it
FairSpec == Spec /\ WF_vars(Next)

\* ----------------------------------------- chains of generateSuccessors
SearchIdle ==
    /\ events = <<>>
    /\ options = NoOptions
    /\ pc = "idle"
    /\ open_set = {}
    /\ closed_set = {}
    /\ result = NoResult
    /\ expansions = 0

Pitches(event) == {event.notes[k].midi : k \in NoteIdx(event)}

\* the finger each pitch of the event is given: locked by Step A or assigned
AssignmentOf(current_node, target_event, a) ==
    [p \in Pitches(target_event) |->
        LET k == CHOOSE k \in NoteIdx(target_event) : target_event.notes[k].midi = p
        IN  IF target_event.notes[k].tied_from_prev
            THEN current_holding_map(current_node, p)
            ELSE a[k].finger]

InitGen ==
    /\ UiIdle
    /\ SearchIdle
    /\ ChainIdle
    /\ VisitIdle
    /\ CallsIdle

\* the current node is extended by one successor for one more event
Extend ==
    /\ gDepth < MaxChain
    /\ \E ev \in EventPool :
          /\ Cardinality(NewIdx(ev)) < 2 \/ gDepth < MaxChordDepth
          /\ ~TieInconsistent(gNode, ev)
          /\ \E a \in valid_assignments(gNode, ev) :
                LET nx == NextNode(gNode, ev, a)
                IN  /\ PassesHardFilters(nx)
                    /\ gNode' = nx
                    /\ gPrev' = gNode
                    /\ gEvent' = ev
                    /\ gPrevAssign' = gAssign
                    /\ gAssign' = AssignmentOf(gNode, ev, a)
                    /\ gCost' = calculateEdgeCost(gNode, nx, ev)
                    /\ gDepth' = gDepth + 1
                    /\ gBellows' = IF gEvent.bellows_direction # "null"
                                   THEN gEvent.bellows_direction
                                   ELSE gBellows
    /\ UNCHANGED <<searchVars, visitVars, callVars, uiVars>>

NextGen == Extend

SpecGen == InitGen /\ [][NextGen]_vars

\* ------------------------------------- the closed-set test on popped nodes
\* nodes that can be popped: the start node and its successors for single
\* notes on the thumb or the index finger, each with every accumulated cost
\* up to MaxG
PoppedPool ==
    LET shapes == {start_node(<<>>)}
                  \cup UNION {generateSuccessors(start_node(<<>>), ev).value :
                                ev \in {e \in EventPool : Len(e.notes) = 1}}
    IN  {[n EXCEPT !.g_score = g, !.f_score = g + n.h_score] :
            n \in {m \in shapes : m.fingers[3].status = "free"
                                   /\ m.fingers[4].status = "free"
                                   /\ m.fingers[5].status = "free"},
            g \in 0..MaxG}

\* closed_set[state_hash].g_score, for a hash that has an entry
RecordedG(closed, node) ==
    (CHOOSE c \in closed : c[1] = calculateHash(node))[2].g_score

HasEntry(closed, node) == \E c \in closed : c[1] = calculateHash(node)

InitClosed ==
    /\ UiIdle
    /\ events = <<>>
    /\ options = NoOptions
    /\ pc = "loop"
    /\ open_set = {}
    /\ closed_set = {}
    /\ result = NoResult
    /\ expansions = 0
    /\ ChainIdle
    /\ VisitIdle
    /\ CallsIdle

\* the deduplication step of one loop iteration on a popped non-goal node:
\* the node is skipped, or entered in the closed set and expanded
Dedup ==
    /\ visits < MaxVisits
    /\ \E current_node \in PoppedPool :
          /\ visit' = Visit(current_node,
                            HasEntry(closed_set, current_node),
                            IF HasEntry(closed_set, current_node)
                            THEN RecordedG(closed_set, current_node) ELSE 0,
                            AlreadyClosed(current_node, closed_set))
          /\ IF AlreadyClosed(current_node, closed_set)
             THEN UNCHANGED <<closed_set, expansions>>
             ELSE /\ closed_set' = ClosedAdd(closed_set, current_node)
                  /\ expansions' = expansions + 1
    /\ visits' = visits + 1
    /\ UNCHANGED <<events, options, pc, open_set, result>>
    /\ UNCHANGED <<chainVars, callVars, uiVars>>

SpecClosed == InitClosed /\ [][Dedup]_vars

\* ---------------------------------------- two invocations side by side
\* the events the two invocations are given
CallPool ==
    { Event(<<Note(60, FALSE)>>, "null", FALSE),
      Event(<<Note(62, FALSE)>>, "push", TRUE),
      Event(<<Note(60, TRUE)>>, "null", FALSE) }

\* variant: the queue and the map are made once and used by every call
SharedInstance(call) == 1

\* open_set = PriorityQueue(), closed_set = HashMap(): made anew in each call
NewInstance(call) == call

InitTwo ==
    /\ UiIdle
    /\ SearchIdle
    /\ ChainIdle
    /\ VisitIdle
    /\ calls \in [CallIds -> {Call(evs, "init", NoResult, NoInstance, NoInstance) :
                                evs \in SeqsUpTo(CallPool, MaxEvents)}]
    /\ queues = [r \in {NoInstance} \cup CallIds |-> {}]
    /\ maps = [r \in {NoInstance} \cup CallIds |-> {}]
    /\ last_call = 0

\* 2. A* Initialization, in invocation i
CallInitialize(i) ==
    /\ calls[i].pc = "init"
    /\ calls' = [calls EXCEPT ![i].pc = "loop",
                              ![i].open_ref = NewInstance(i),
                              ![i].closed_ref = NewInstance(i)]
    /\ queues' = [queues EXCEPT ![NewInstance(i)] = @ \cup {start_node(calls[i].events)}]
    /\ UNCHANGED maps
    /\ last_call' = i
    /\ UNCHANGED <<searchVars, chainVars, visitVars, uiVars>>

\* one iteration of the pathfinding loop, in invocation i
CallIterate(i) ==
    /\ calls[i].pc = "loop"
    /\ queues[calls[i].open_ref] # {}
    /\ \E current_node \in LowestF(queues[calls[i].open_ref]) :
          LET rest   == queues[calls[i].open_ref] \ {current_node}
              closed == maps[calls[i].closed_ref]
          IN  IF IsGoal(current_node, calls[i].events)
              THEN /\ calls' = [calls EXCEPT ![i].result = Solution(current_node),
                                            ![i].pc = "done"]
                   /\ queues' = [queues EXCEPT ![calls[i].open_ref] = rest]
                   /\ UNCHANGED maps
              ELSE IF AlreadyClosed(current_node, closed)
              THEN /\ queues' = [queues EXCEPT ![calls[i].open_ref] = rest]
                   /\ UNCHANGED <<calls, maps>>
              ELSE /\ maps' = [maps EXCEPT ![calls[i].closed_ref] =
                                               ClosedAdd(closed, current_node)]
                   /\ IF ButtonExpansionFails(current_node,
                                  calls[i].events[current_node.time_index + 2])
                      THEN /\ calls' = [calls EXCEPT
                                  ![i].result = Raised("UnmappablePitchError"),
                                  ![i].pc = "done"]
                           /\ queues' = [queues EXCEPT ![calls[i].open_ref] = rest]
                      ELSE /\ queues' = [queues EXCEPT ![calls[i].open_ref] =
                                     rest \cup Pushed(current_node, calls[i].events)]
                           /\ UNCHANGED calls
    /\ last_call' = i
    /\ UNCHANGED <<searchVars, chainVars, visitVars, uiVars>>

\* the loop of invocation i ends with its open set empty
CallFail(i) ==
    /\ calls[i].pc = "loop"
    /\ queues[calls[i].open_ref] = {}
    /\ calls' = [calls EXCEPT ![i].result = FAILURE, ![i].pc = "done"]
    /\ last_call' = i
    /\ UNCHANGED <<queues, maps>>
    /\ UNCHANGED <<searchVars, chainVars, visitVars, uiVars>>

NextTwo == \E i \in CallIds : CallInitialize(i) \/ CallIterate(i) \/ CallFail(i)

SpecTwo == InitTwo /\ [][NextTwo]_vars

\* ---------------------------------------------------------- status polling
engineVars == <<searchVars, chainVars, visitVars, callVars>>

\* the two polling functions
Pollers == {"pollStatus", "pollProcessingStatus"}

\* what a status request can come back with: the status field of the
\* response, or "error" for a response that is not ok or a fetch that throws
Statuses == {"processing", "completed", "failed", "error"}

\* resolve(...) and reject(...): a promise settles once, later calls are
\* without effect
Settle(p, outcome) == IF p = "pending" THEN outcome ELSE p

\* one polling function has been called for job 1 by a caller that is not
\* part of the page: the executor of its promise has called setInterval
InitPoll ==
    /\ SearchIdle
    /\ ChainIdle
    /\ VisitIdle
    /\ CallsIdle
    /\ ViewerIdle
    /\ AppIdle
    /\ PlayIdle
    /\ poller \in Pollers
    /\ interval = [j \in PollIds |-> j = 1]
    /\ requests = [j \in PollIds |-> 0]
    /\ sent = [j \in PollIds |-> 0]
    /\ promise = [j \in PollIds |-> "pending"]
    /\ progress = [j \in PollIds |-> 0]
    /\ loads = [j \in PollIds |-> 0]
    /\ loading = [j \in PollIds |-> 0]

\* api.js: the interval fires and the callback runs up to await getStatus
pollStatusTick(j) ==
    /\ poller = "pollStatus"
    /\ interval[j]
    /\ sent[j] < MaxRequests
    /\ requests' = [requests EXCEPT ![j] = @ + 1]
    /\ sent' = [sent EXCEPT ![j] = @ + 1]
    /\ UNCHANGED <<poller, interval, promise, progress, loads, loading>>
    /\ UNCHANGED <<engineVars, viewerVars, appVars, playVars>>

\* the catch block of handleFile, for call p; message is the message of
\* what was thrown
handleFileCatch(p, message) ==
    /\ viewerError' = message
    /\ viewerState' = [viewerState EXCEPT !.isProcessing = FALSE]
    /\ pipelines' = [pipelines EXCEPT ![p].stage = "failed"]

\* handleFile is suspended at await API.pollStatus for job j and that
\* promise has not settled
AwaitedByViewer(j) ==
    /\ j \in 1..MaxFiles
    /\ pipelines[j].stage = "pollStatus"
    /\ promise[j] = "pending"

\* api.js: a getStatus call returns and the callback runs to its end; when
\* it settles the promise handleFile is waiting for, handleFile goes on in
\* the same turn, up to await API.getResults or through its catch block
\* ("error.message" stands for the message of a failed request)
pollStatusResponse(j, status) ==
    /\ poller = "pollStatus"
    /\ requests[j] > 0
    /\ requests' = [requests EXCEPT ![j] = @ - 1]
    /\ IF status = "error"
       THEN /\ interval' = [interval EXCEPT ![j] = FALSE]
            /\ promise' = [promise EXCEPT ![j] = Settle(@, "rejected")]
            /\ UNCHANGED progress
       ELSE /\ progress' = [progress EXCEPT ![j] = @ + 1]
            /\ IF status = "completed"
               THEN /\ interval' = [interval EXCEPT ![j] = FALSE]
                    /\ promise' = [promise EXCEPT ![j] = Settle(@, "resolved")]
               ELSE IF status = "failed"
               THEN /\ interval' = [interval EXCEPT ![j] = FALSE]
                    /\ promise' = [promise EXCEPT ![j] = Settle(@, "rejected")]
               ELSE UNCHANGED <<interval, promise>>
    /\ IF AwaitedByViewer(j) /\ status = "completed"
       THEN /\ pipelines' = [pipelines EXCEPT ![j].stage = "getResults"]
            /\ UNCHANGED <<viewerState, viewerError>>
       ELSE IF AwaitedByViewer(j) /\ status \in {"error", "failed"}
       THEN handleFileCatch(j, "error.message")
       ELSE UNCHANGED <<viewerState, pipelines, viewerError>>
    /\ UNCHANGED <<poller, sent, loads, loading>>
    /\ UNCHANGED <<rendered, viewerHealth>>
    /\ UNCHANGED <<engineVars, appVars, playVars>>

\* resetProcessing
resetProcessing ==
    /\ appState' = [appState EXCEPT !.isProcessing = FALSE]
    /\ elements' = [elements EXCEPT !.processBtn_disabled = FALSE,
                                    !.progressSection = "none"]

\* the catch block of handleProcess; "error.message" stands for the message
\* of whatever was thrown
handleProcessCatch ==
    /\ appError' = "error.message"
    /\ resetProcessing
    /\ run' = "idle"
    /\ UNCHANGED jobs

\* handleProcess is suspended at await pollProcessingStatus(jobId) for job j
\* and that promise has not settled
Awaited(j) == run = "pollProcessingStatus" /\ j = jobs /\ promise[j] = "pending"

\* app.js: the interval fires and the callback runs up to await fetch
pollProcessingStatusTick(j) ==
    /\ poller = "pollProcessingStatus"
    /\ interval[j]
    /\ sent[j] < MaxRequests
    /\ requests' = [requests EXCEPT ![j] = @ + 1]
    /\ sent' = [sent EXCEPT ![j] = @ + 1]
    /\ UNCHANGED <<poller, interval, promise, progress, loads, loading>>
    /\ UNCHANGED <<engineVars, viewerVars, appVars, playVars>>

\* app.js: a status fetch returns and the callback runs up to the fetch of
\* loadResults, or to its end; when it rejects the promise handleProcess is
\* waiting for, the catch block of handleProcess runs in the same turn
pollProcessingStatusResponse(j, status) ==
    /\ poller = "pollProcessingStatus"
    /\ requests[j] > 0
    /\ requests' = [requests EXCEPT ![j] = @ - 1]
    /\ progress' = IF status = "error" THEN progress
                   ELSE [progress EXCEPT ![j] = @ + 1]
    /\ interval' = IF status = "processing" THEN interval
                   ELSE [interval EXCEPT ![j] = FALSE]
    /\ loads' = IF status = "completed" THEN [loads EXCEPT ![j] = @ + 1]
                ELSE loads
    /\ loading' = IF status = "completed" THEN [loading EXCEPT ![j] = @ + 1]
                  ELSE loading
    /\ promise' = IF status \in {"error", "failed"}
                  THEN [promise EXCEPT ![j] = Settle(@, "rejected")]
                  ELSE promise
    /\ IF status \in {"error", "failed"} /\ Awaited(j)
       THEN handleProcessCatch
       ELSE /\ elements' = IF status = "error" THEN elements
                           ELSE [elements EXCEPT !.progressSection = "block"]
            /\ UNCHANGED <<appState, run, jobs, appError>>
    /\ UNCHANGED <<poller, sent, appHealth>>
    /\ UNCHANGED <<engineVars, viewerVars, playVars>>

\* app.js: the fetch of loadResults returns.  loadResults stores the data
\* and shows the visualization and the callback resolves, so a waiting
\* handleProcess returns; or loadResults throws into the catch of the
\* callback, which rejects
loadResultsResponse(j, ok) ==
    /\ poller = "pollProcessingStatus"
    /\ loading[j] > 0
    /\ loading' = [loading EXCEPT ![j] = @ - 1]
    /\ IF ok
       THEN /\ promise' = [promise EXCEPT ![j] = Settle(@, "resolved")]
            /\ UNCHANGED interval
            /\ appState' = [appState EXCEPT !.processingData = j]
            /\ elements' = [elements EXCEPT !.progressSection = "none",
                                            !.visualizationSection = "block"]
            /\ run' = IF Awaited(j) THEN "idle" ELSE run
            /\ UNCHANGED <<jobs, appError>>
       ELSE /\ interval' = [interval EXCEPT ![j] = FALSE]
            /\ promise' = [promise EXCEPT ![j] = Settle(@, "rejected")]
            /\ IF Awaited(j)
               THEN handleProcessCatch
               ELSE UNCHANGED <<appState, elements, run, jobs, appError>>
    /\ UNCHANGED <<poller, requests, sent, progress, loads, appHealth>>
    /\ UNCHANGED <<engineVars, viewerVars, playVars>>

NextPoll ==
    \/ \E j \in PollIds : pollStatusTick(j)
    \/ \E j \in PollIds, status \in Statuses : pollStatusResponse(j, status)
    \/ \E j \in PollIds : pollProcessingStatusTick(j)
    \/ \E j \in PollIds, status \in Statuses : pollProcessingStatusResponse(j, status)
    \/ \E j \in PollIds, ok \in BOOLEAN : loadResultsResponse(j, ok)

SpecPoll == InitPoll /\ [][NextPoll]_vars

\* --------------------------------------------------------------- the viewer
\* the awaits a call of handleFile can be suspended at
ActiveStages ==
    {"uploadPDF", "startProcessing", "pollStatus", "getResults",
     "renderScore.fetch", "renderScore.load"}

\* the calls of handleFile that have started and not returned
InFlight == {p \in 1..MaxFiles : pipelines[p].stage \in ActiveStages}

\* the next call of handleFile or handleMusicXMLSelect is call p
NextCall(p) ==
    /\ pipelines[p].stage = "none"
    /\ \A q \in 1..(p - 1) : pipelines[q].stage # "none"

InitViewer ==
    /\ SearchIdle
    /\ ChainIdle
    /\ VisitIdle
    /\ CallsIdle
    /\ PollIdle
    /\ AppIdle
    /\ PlayIdle
    /\ ViewerIdle

\* checkBackendHealth: the health check settles
checkBackendHealthDone(ok) ==
    /\ viewerHealth = "pending"
    /\ viewerHealth' = "done"
    /\ viewerError' = IF ok THEN viewerError
                      ELSE "Backend server not available. Please start the server."
    /\ UNCHANGED <<viewerState, pipelines, rendered>>
    /\ UNCHANGED <<engineVars, pollVars, appVars, playVars>>

\* handleDrop or handleFileSelect hands files[0] to handleFile, which runs
\* up to await API.uploadPDF
handleFile(file) ==
    /\ \E p \in 1..MaxFiles :
          /\ NextCall(p)
          /\ IF file.ext # ".pdf"
             THEN /\ viewerError' = "Please upload a PDF file"
                  /\ UNCHANGED <<viewerState, pipelines>>
             ELSE IF file.mb > maxFileSize
             THEN /\ viewerError' = "File size exceeds 10MB limit"
                  /\ UNCHANGED <<viewerState, pipelines>>
             ELSE /\ viewerState' = [viewerState EXCEPT !.isProcessing = TRUE]
                  /\ pipelines' = [pipelines EXCEPT ![p].stage = "uploadPDF"]
                  /\ UNCHANGED viewerError
    /\ UNCHANGED <<rendered, viewerHealth>>
    /\ UNCHANGED <<engineVars, pollVars, appVars, playVars>>

\* API.uploadPDF settles: the server names the job (here by the number of
\* the call)
uploadPDFDone(p, ok) ==
    /\ pipelines[p].stage = "uploadPDF"
    /\ IF ok
       THEN /\ viewerState' = [viewerState EXCEPT !.currentJobId = p]
            /\ pipelines' = [pipelines EXCEPT ![p].stage = "startProcessing"]
            /\ UNCHANGED viewerError
       ELSE handleFileCatch(p, "error.message")
    /\ UNCHANGED <<rendered, viewerHealth>>
    /\ UNCHANGED <<engineVars, pollVars, appVars, playVars>>

\* API.startProcessing settles: API.pollStatus(job, ...) sets its interval
\* and handleFile waits for its promise
startProcessingDone(p, ok) ==
    /\ pipelines[p].stage = "startProcessing"
    /\ IF ok
       THEN /\ pipelines' = [pipelines EXCEPT ![p].stage = "pollStatus"]
            /\ interval' = [interval EXCEPT ![p] = TRUE]
            /\ UNCHANGED <<viewerState, viewerError>>
       ELSE /\ handleFileCatch(p, "error.message")
            /\ UNCHANGED interval
    /\ UNCHANGED <<poller, requests, sent, promise, progress, loads, loading>>
    /\ UNCHANGED <<rendered, viewerHealth>>
    /\ UNCHANGED <<engineVars, appVars, playVars>>

\* API.getResults settles; the results are stored and renderScore runs up
\* to its fetch of the MusicXML, emptying the score container first
getResultsDone(p, ok, system) ==
    /\ pipelines[p].stage = "getResults"
    /\ IF ok
       THEN /\ viewerState' = [viewerState EXCEPT !.results = p,
                                                   !.trebleLayout = p,
                                                   !.bassLayout = p]
            /\ pipelines' = [pipelines EXCEPT ![p] = Pipeline("renderScore.fetch", system)]
            /\ rendered' = NoJob
            /\ UNCHANGED viewerError
       ELSE /\ handleFileCatch(p, "error.message")
            /\ UNCHANGED rendered
    /\ UNCHANGED viewerHealth
    /\ UNCHANGED <<engineVars, pollVars, appVars, playVars>>

\* handleFile goes on after renderScore has returned: showResults, which
\* throws into the catch of handleFile when the treble layout has no
\* system; err is the error text renderScore left
showResults(p, err) ==
    IF pipelines[p].system
    THEN /\ viewerState' = [viewerState EXCEPT !.isProcessing = FALSE]
         /\ pipelines' = [pipelines EXCEPT ![p].stage = "done"]
         /\ viewerError' = err
    ELSE handleFileCatch(p, "Cannot read properties of undefined (reading 'toUpperCase')")

\* renderScore: the fetch of the MusicXML settles.  renderScoreFromString
\* empties the container and runs up to await osmd.load; or renderScore
\* catches the failure, shows it and returns
renderScoreFetched(p, ok) ==
    /\ pipelines[p].stage = "renderScore.fetch"
    /\ IF ok
       THEN /\ rendered' = NoJob
            /\ pipelines' = [pipelines EXCEPT ![p].stage = "renderScore.load"]
            /\ UNCHANGED <<viewerState, viewerError>>
       ELSE /\ showResults(p, "Failed to display score")
            /\ UNCHANGED rendered
    /\ UNCHANGED viewerHealth
    /\ UNCHANGED <<engineVars, pollVars, appVars, playVars>>

\* renderScore: osmd.load settles and the score is rendered, or the failure
\* is shown; renderScore returns
renderScoreLoaded(p, ok) ==
    /\ pipelines[p].stage = "renderScore.load"
    /\ IF ok
       THEN /\ rendered' = p
            /\ showResults(p, viewerError)
       ELSE /\ showResults(p, "Failed to display score")
            /\ UNCHANGED rendered
    /\ UNCHANGED viewerHealth
    /\ UNCHANGED <<engineVars, pollVars, appVars, playVars>>

\* the catch block of handleMusicXMLSelect, for call p
handleMusicXMLCatch(p) ==
    /\ viewerError' = "Failed to load MusicXML"
    /\ pipelines' = [pipelines EXCEPT ![p].stage = "failed"]

\* a file is chosen in the MusicXML input: handleMusicXMLSelect runs up to
\* await API.uploadMusicXML
handleMusicXMLSelect(file) ==
    /\ \E p \in 1..MaxFiles :
          /\ NextCall(p)
          /\ IF file.ext \notin {".musicxml", ".mxl", ".xml"}
             THEN /\ viewerError' = "Please upload a .musicxml, .mxl, or .xml file"
                  /\ UNCHANGED pipelines
             ELSE /\ pipelines' = [pipelines EXCEPT ![p].stage = "uploadMusicXML"]
                  /\ UNCHANGED viewerError
    /\ UNCHANGED <<viewerState, rendered, viewerHealth>>
    /\ UNCHANGED <<engineVars, pollVars, appVars, playVars>>

\* API.uploadMusicXML settles
uploadMusicXMLDone(p, ok) ==
    /\ pipelines[p].stage = "uploadMusicXML"
    /\ IF ok
       THEN /\ viewerState' = [viewerState EXCEPT !.currentJobId = p]
            /\ pipelines' = [pipelines EXCEPT ![p].stage = "musicxml.fetch"]
            /\ UNCHANGED viewerError
       ELSE /\ handleMusicXMLCatch(p)
            /\ UNCHANGED viewerState
    /\ UNCHANGED <<rendered, viewerHealth>>
    /\ UNCHANGED <<engineVars, pollVars, appVars, playVars>>

\* the fetch of the MusicXML settles; renderScoreFromString empties the
\* container and runs up to await osmd.load
musicXMLFetched(p, ok) ==
    /\ pipelines[p].stage = "musicxml.fetch"
    /\ IF ok
       THEN /\ rendered' = NoJob
            /\ pipelines' = [pipelines EXCEPT ![p].stage = "musicxml.load"]
            /\ UNCHANGED viewerError
       ELSE /\ handleMusicXMLCatch(p)
            /\ UNCHANGED rendered
    /\ UNCHANGED <<viewerState, viewerHealth>>
    /\ UNCHANGED <<engineVars, pollVars, appVars, playVars>>

\* osmd.load settles and the score is rendered, or renderScoreFromString
\* throws
musicXMLLoaded(p, ok) ==
    /\ pipelines[p].stage = "musicxml.load"
    /\ IF ok
       THEN /\ rendered' = p
            /\ pipelines' = [pipelines EXCEPT ![p].stage = "done"]
            /\ UNCHANGED viewerError
       ELSE /\ handleMusicXMLCatch(p)
            /\ UNCHANGED rendered
    /\ UNCHANGED <<viewerState, viewerHealth>>
    /\ UNCHANGED <<engineVars, pollVars, appVars, playVars>>

NextViewer ==
    \/ \E ok \in BOOLEAN : checkBackendHealthDone(ok)
    \/ \E file \in FilePool : handleFile(file)
    \/ \E p \in 1..MaxFiles, ok \in BOOLEAN : uploadPDFDone(p, ok)
    \/ \E p \in 1..MaxFiles, ok \in BOOLEAN : startProcessingDone(p, ok)
    \/ \E j \in PollIds : pollStatusTick(j)
    \/ \E j \in PollIds, status \in Statuses : pollStatusResponse(j, status)
    \/ \E p \in 1..MaxFiles, ok \in BOOLEAN, system \in BOOLEAN : getResultsDone(p, ok, system)
    \/ \E p \in 1..MaxFiles, ok \in BOOLEAN : renderScoreFetched(p, ok)
    \/ \E p \in 1..MaxFiles, ok \in BOOLEAN : renderScoreLoaded(p, ok)
    \/ \E file \in FilePool : handleMusicXMLSelect(file)
    \/ \E p \in 1..MaxFiles, ok \in BOOLEAN : uploadMusicXMLDone(p, ok)
    \/ \E p \in 1..MaxFiles, ok \in BOOLEAN : musicXMLFetched(p, ok)
    \/ \E p \in 1..MaxFiles, ok \in BOOLEAN : musicXMLLoaded(p, ok)

SpecViewer == InitViewer /\ [][NextViewer]_vars

\* ----------------------------------------------------------- the upload page
\* whether the page is served with the Process button disabled is not in
\* the sources
InitApp ==
    /\ SearchIdle
    /\ ChainIdle
    /\ VisitIdle
    /\ CallsIdle
    /\ ViewerIdle
    /\ PlayIdle
    /\ poller = "pollProcessingStatus"
    /\ interval = [j \in PollIds |-> FALSE]
    /\ requests = [j \in PollIds |-> 0]
    /\ sent = [j \in PollIds |-> 0]
    /\ promise = [j \in PollIds |-> "pending"]
    /\ progress = [j \in PollIds |-> 0]
    /\ loads = [j \in PollIds |-> 0]
    /\ loading = [j \in PollIds |-> 0]
    /\ appState = AppState(NoFile, NoJob, FALSE, NoJob)
    /\ elements \in {Elements(d, "none", "none") : d \in BOOLEAN}
    /\ run = "idle"
    /\ jobs = 0
    /\ appError = ""
    /\ appHealth = "pending"

\* checkBackendConnection: the fetch of /health settles
checkBackendConnectionDone(ok) ==
    /\ appHealth = "pending"
    /\ appHealth' = "done"
    /\ appError' = IF ok THEN appError
                   ELSE "Cannot connect to backend server. Please ensure it is running on port 8000."
    /\ UNCHANGED <<appState, elements, run, jobs>>
    /\ UNCHANGED <<engineVars, pollVars, viewerVars, playVars>>

\* handleFileSelect or handleDrop, then handleFile of app.js
selectFile(file) ==
    /\ IF ~(file.ext \in {".pdf", ".PDF"})
       THEN /\ appError' = "Please select a PDF file."
            /\ UNCHANGED <<appState, elements>>
       ELSE IF file.mb > maxFileSize
       THEN /\ appError' = "File size exceeds 10MB limit."
            /\ UNCHANGED <<appState, elements>>
       ELSE /\ appState' = [appState EXCEPT !.currentFile = file]
            /\ elements' = [elements EXCEPT !.processBtn_disabled = FALSE]
            /\ UNCHANGED appError
    /\ UNCHANGED <<run, jobs, appHealth>>
    /\ UNCHANGED <<engineVars, pollVars, viewerVars, playVars>>

\* a click on the Process button (a disabled button gets no click):
\* handleProcess runs up to await uploadFile
handleProcess ==
    /\ ~elements.processBtn_disabled
    /\ jobs < MaxRuns
    /\ IF appState.currentFile = NoFile
       THEN /\ appError' = "Please select a file first."
            /\ UNCHANGED <<appState, elements, run, jobs>>
       ELSE IF appState.isProcessing
       THEN UNCHANGED <<appState, elements, run, jobs, appError>>
       ELSE /\ appState' = [appState EXCEPT !.isProcessing = TRUE]
            /\ elements' = [elements EXCEPT !.processBtn_disabled = TRUE,
                                            !.progressSection = "block"]
            /\ run' = "uploadFile"
            /\ UNCHANGED <<jobs, appError>>
    /\ UNCHANGED appHealth
    /\ UNCHANGED <<engineVars, pollVars, viewerVars, playVars>>

\* uploadFile settles: the server names the job (here by the number of the
\* upload); handleProcess runs up to await startProcessing
uploadFileDone(ok) ==
    /\ run = "uploadFile"
    /\ IF ok
       THEN /\ jobs' = jobs + 1
            /\ appState' = [appState EXCEPT !.currentJobId = jobs + 1]
            /\ elements' = [elements EXCEPT !.progressSection = "block"]
            /\ run' = "startProcessing"
            /\ UNCHANGED appError
       ELSE handleProcessCatch
    /\ UNCHANGED appHealth
    /\ UNCHANGED <<engineVars, pollVars, viewerVars, playVars>>

\* startProcessing settles: pollProcessingStatus(jobId) sets its interval
\* and handleProcess waits for its promise
startProcessingSettled(ok) ==
    /\ run = "startProcessing"
    /\ IF ok
       THEN /\ run' = "pollProcessingStatus"
            /\ interval' = [interval EXCEPT ![jobs] = TRUE]
            /\ UNCHANGED <<appState, elements, jobs, appError>>
       ELSE /\ handleProcessCatch
            /\ UNCHANGED interval
    /\ UNCHANGED <<poller, requests, sent, promise, progress, loads, loading>>
    /\ UNCHANGED appHealth
    /\ UNCHANGED <<engineVars, viewerVars, playVars>>

NextApp ==
    \/ \E ok \in BOOLEAN : checkBackendConnectionDone(ok)
    \/ \E file \in FilePool : selectFile(file)
    \/ handleProcess
    \/ \E ok \in BOOLEAN : uploadFileDone(ok)
    \/ \E ok \in BOOLEAN : startProcessingSettled(ok)
    \/ \E j \in PollIds : pollProcessingStatusTick(j)
    \/ \E j \in PollIds, status \in Statuses : pollProcessingStatusResponse(j, status)
    \/ \E j \in PollIds, ok \in BOOLEAN : loadResultsResponse(j, ok)

SpecApp == InitApp /\ [][NextApp]_vars

\* ------------------------------------------------------ playback controls
InitPlay ==
    /\ SearchIdle
    /\ ChainIdle
    /\ VisitIdle
    /\ CallsIdle
    /\ PollIdle
    /\ ViewerIdle
    /\ AppIdle
    /\ PlayIdle

\* the playback state and the number of live intervals of startTimeUpdate
Playback(state, n) == [state |-> state, timers |-> n]

\* play: isPlaying = true, then startTimeUpdate sets one more interval
play(pb) ==
    Playback([pb.state EXCEPT !.isPlaying = TRUE], pb.timers + 1)

pause(pb) == Playback([pb.state EXCEPT !.isPlaying = FALSE], pb.timers)

\* the playback state stop leaves
stop(state) == [state EXCEPT !.isPlaying = FALSE, !.currentTime = 0]

togglePlayback(pb) == IF pb.state.isPlaying THEN pause(pb) ELSE play(pb)

\* every call of setupPlaybackControls adds one more keydown listener (a new
\* function each time), so a key event runs togglePlayback n times in a row
RECURSIVE togglePlaybackTimes(_, _)
togglePlaybackTimes(pb, n) ==
    IF n = 0 THEN pb ELSE togglePlaybackTimes(togglePlayback(pb), n - 1)

\* initializeScoreControls: the listeners are added (listeners counts the
\* keydown listeners) and calculateDuration sets the total time
initializeScoreControls ==
    /\ listeners < MaxInits
    /\ listeners' = listeners + 1
    /\ playbackState' = [playbackState EXCEPT !.totalTime = TotalTime]
    /\ UNCHANGED timers
    /\ UNCHANGED <<engineVars, pollVars, viewerVars, appVars>>

\* resetControls: a new playbackState object; live intervals go on
resetControls ==
    /\ playbackState' = PlaybackState(FALSE, 0, 0)
    /\ UNCHANGED <<timers, listeners>>
    /\ UNCHANGED <<engineVars, pollVars, viewerVars, appVars>>

\* a click on the play/pause button: togglePlayback is the listener, and
\* adding the same function again adds nothing
clickPlayPause ==
    /\ listeners >= 1
    /\ \E pb \in {togglePlayback(Playback(playbackState, timers))} :
          /\ pb.timers <= MaxTimers
          /\ playbackState' = pb.state
          /\ timers' = pb.timers
    /\ UNCHANGED listeners
    /\ UNCHANGED <<engineVars, pollVars, viewerVars, appVars>>

\* the keydown listeners of the document
keydown(code, tagName) ==
    /\ listeners >= 1
    /\ IF code = "Space" /\ tagName # "INPUT"
       THEN \E pb \in {togglePlaybackTimes(Playback(playbackState, timers), listeners)} :
               /\ pb.timers <= MaxTimers
               /\ playbackState' = pb.state
               /\ timers' = pb.timers
       ELSE UNCHANGED <<playbackState, timers>>
    /\ UNCHANGED listeners
    /\ UNCHANGED <<engineVars, pollVars, viewerVars, appVars>>

\* a click on the stop button
clickStop ==
    /\ listeners >= 1
    /\ playbackState' = stop(playbackState)
    /\ UNCHANGED <<timers, listeners>>
    /\ UNCHANGED <<engineVars, pollVars, viewerVars, appVars>>

\* the callback of one of the intervals set by startTimeUpdate
startTimeUpdate ==
    /\ timers > 0
    /\ IF ~playbackState.isPlaying
       THEN /\ timers' = timers - 1
            /\ UNCHANGED playbackState
       ELSE IF playbackState.currentTime + 1 >= TicksToEnd(playbackState.totalTime)
       THEN /\ playbackState' = stop(playbackState)
            /\ timers' = timers - 1
       ELSE /\ playbackState' = [playbackState EXCEPT !.currentTime = @ + 1]
            /\ UNCHANGED timers
    /\ UNCHANGED listeners
    /\ UNCHANGED <<engineVars, pollVars, viewerVars, appVars>>

NextPlay ==
    \/ initializeScoreControls
    \/ resetControls
    \/ clickPlayPause
    \/ \E code \in {"Space", "Enter"}, tagName \in {"BODY", "INPUT"} : keydown(code, tagName)
    \/ clickStop
    \/ startTimeUpdate

SpecPlay == InitPlay /\ [][NextPlay]_vars

\* ================================================================== claims
\* the cheapest way to reach each node a chain of successors can end in
\* after the first k events: a set of [node, g]
RECURSIVE ChainFront(_, _)
ChainFront(evs, k) ==
    IF k = 0 THEN {[node |-> start_node(evs), g |-> 0]}
    ELSE LET prev == ChainFront(evs, k - 1)
             cand == UNION { { [node |-> nx,
                                g    |-> e.g + calculateEdgeCost(e.node, nx, evs[k])] :
                                  nx \in generateSuccessors(e.node, evs[k]).value } : e \in prev }
         IN  {c \in cand : \A d \in cand : d.node = c.node => c.g <= d.g}

LegalChainExists(evs) == ChainFront(evs, Len(evs)) # {}

MinChainCost(evs) ==
    LET front == ChainFront(evs, Len(evs))
    IN  (CHOOSE c \in front : \A d \in front : c.g <= d.g).g

\* a note of the input whose pitch the layout has no button for
UnmappableInput(evs) ==
    \E t \in 1..Len(evs) : \E k \in NoteIdx(evs[t]) :
        getPhysicalButtonOptions(evs[t].notes[k].midi).raised = "UnmappablePitchError"

Done == pc = "done"

\* C1: when a complete legal fingering exists, computeFingerings returns a
\* solution whose total cost is the minimum summed edge cost over all chains.
Cex_C1 ==
    (Done /\ LegalChainExists(events)) =>
        /\ result.kind = "solution"
        /\ result.total_cost = MinChainCost(events)

Thm_C4 ==
    \A i \in 1..Len(gNode.fingers) : \A j \in 1..Len(gNode.fingers) :
        (gNode.fingers[i].status # "free" /\ gNode.fingers[j].status # "free") =>
            LET dr == (gNode.fingers[i].button[1] - gNode.fingers[j].button[1]) * 15
                dc == (gNode.fingers[i].button[2] - gNode.fingers[j].button[2]) * 18
            IN  dr * dr + dc * dc <= 150 * 150

\* a locked and a newly assigned finger on different buttons, reached for an
\* event that also had a candidate wider than the span limit
Witness_C4 ==
    /\ gDepth >= 1
    /\ TiedIdx(gEvent) # {}
    /\ NewIdx(gEvent) # {}
    /\ SpanSq(gNode.fingers) > 0
    /\ \E a \in valid_assignments(gPrev, gEvent) :
          SpanTooWide(NextNode(gPrev, gEvent, a))

\* C5: every node has exactly five finger states, numbered 1 to 5 without
\* repetition.
Thm_C5 ==
    /\ Len(gNode.fingers) = 5
    /\ {gNode.fingers[i].index : i \in 1..Len(gNode.fingers)} = 1..5
    /\ \A i \in 1..Len(gNode.fingers) : \A j \in 1..Len(gNode.fingers) :
          i # j => gNode.fingers[i].index # gNode.fingers[j].index

Witness_C5 ==
    /\ gDepth >= 2
    /\ TiedIdx(gEvent) # {}
    /\ NewIdx(gEvent) # {}
    /\ gNode.fingers # gPrev.fingers

\* C6: the search loop ends, with a path or with the failure outcome.
Thm_C6 == <>(pc = "done")

Witness_C6 ==
    /\ Done
    /\ closed_set # {}
    /\ Len(events) = MaxEvents

\* some event is reached by a chain of successors and no chain gets past it:
\* for every node that reaches it generateSuccessors returns and returns
\* nothing (every candidate pruned, or the event tie-inconsistent)
DeadEvent(evs) ==
    \E k \in 1..Len(evs) :
        /\ ChainFront(evs, k - 1) # {}
        /\ ChainFront(evs, k) = {}
        /\ \A e \in ChainFront(evs, k - 1) :
              generateSuccessors(e.node, evs[k]).raised = "none"

\* C7: when at some event every branch that reaches it has no surviving
\* successor, the search ends with the open set empty and NoFeasiblePath,
\* never with a path.
Thm_C7 ==
    (Done /\ DeadEvent(events)) =>
        /\ result.kind = "NoFeasiblePath"
        /\ result.path = <<>>
        /\ open_set = {}

\* the first event can be fingered, the second has every candidate pruned
Witness_C7 ==
    /\ Done
    /\ Len(events) = 2
    /\ ChainFront(events, 1) # {}
    /\ ChainFront(events, 2) = {}
    /\ result.kind = "NoFeasiblePath"

\* C8: the edge cost into a generated successor is never negative, so the
\* cost accumulated through it is never below the parent's.
Thm_C8 ==
    gDepth >= 1 =>
        /\ gCost >= 0
        /\ tentative_g(gPrev, gNode, gEvent) >= gPrev.g_score

\* a transition with the pivot discount, the bellows discount and a penalty
Witness_C8 ==
    /\ gDepth >= 2
    /\ hasPivotFinger(gPrev, gNode)
    /\ BellowsChanged(gPrev, gEvent)
    /\ isGeometricInversion(gNode)
    /\ gCost > 0

\* C10: generateSuccessors returns nothing for an event with a tied note
\* whose pitch is not in the event the current node accounts for.
Cex_C10 ==
    \A ev \in EventPool :
        (\E k \in TiedIdx(ev) : ev.notes[k].midi \notin Pitches(gEvent)) =>
            generateSuccessors(gNode, ev) = Returns({})

\* C11: when some note of some input event has a pitch without a candidate
\* button, the solve ends with UnmappablePitchError, not with NoFeasiblePath
\* and not with a solution.
Cex_C11 ==
    (Done /\ UnmappableInput(events)) => result.kind = "UnmappablePitchError"

\* C12: with a node-expansion budget configured and used up before a goal
\* node is popped, the solve stops and hands back the best path found so far
\* marked as not optimal (TimeoutExceeded), rather than running the loop
\* until the open set is empty.
Cex_C12 ==
    (/\ Done
     /\ options.node_budget > 0
     /\ expansions >= options.node_budget
     /\ result.kind # "solution") => result.kind = "TimeoutExceeded"

\* C19: when a non-goal node n is expanded for the next event e, every node
\* generateSuccessors(n, e) returns for a state not generated before is on
\* the open set afterwards as a child of n, with event index n.time_index + 1,
\* g = n.g + calculateEdgeCost(n, successor, e) and f = g + h.
Cex_C19 ==
    [][\A n \in open_set :
          (/\ pc = "loop"
           /\ n \in LowestF(open_set)
           /\ ~IsGoal(n, events)
           /\ ~AlreadyClosed(n, closed_set)
           /\ expansions' = expansions + 1)
          => \A s \in generateSuccessors(n, events[n.time_index + 2]).value :
                (\A q \in open_set : q.fingers # s.fingers) =>
                    \E q \in open_set' :
                        /\ q.fingers = s.fingers
                        /\ q.parent = <<n>>
                        /\ q.time_index = n.time_index + 1
                        /\ q.g_score = n.g_score
                              + calculateEdgeCost(n, s, events[n.time_index + 2])
                        /\ q.f_score = q.g_score + q.h_score]_vars

\* C18: the solve starts from one start node with time index -1, five free
\* fingers, g = 0 and the bellows state the caller supplied (neutral when
\* none was supplied).
Cex_C18 ==
    (pc = "loop" /\ closed_set = {}) =>
        \E n \in open_set :
            /\ open_set = {n}
            /\ n.time_index = -1
            /\ Len(n.fingers) = 5
            /\ \A i \in 1..Len(n.fingers) : n.fingers[i].status = "free"
            /\ n.g_score = 0
            /\ n.bellows_state = IF options.start_bellows = "unset"
                                 THEN "neutral"
                                 ELSE options.start_bellows

\* C13: in every successor, each finger that held a tied note of the event
\* in the current node (the finger the current node's event put the pitch
\* on) keeps its index, its button and its pitch.
Cex_C13 ==
    gDepth >= 2 =>
        \A k \in TiedIdx(gEvent) :
            LET p == gEvent.notes[k].midi
            IN  p \in DOMAIN gPrevAssign =>
                    /\ gNode.fingers[gPrevAssign[p]].index = gPrev.fingers[gPrevAssign[p]].index
                    /\ gNode.fingers[gPrevAssign[p]].button = gPrev.fingers[gPrevAssign[p]].button
                    /\ gNode.fingers[gPrevAssign[p]].midi_note = p

\* the fingers the successor accounts its event's notes to
UsedFingers == {gAssign[p] : p \in DOMAIN gAssign}

\* C14: a successor for an event with k tied and m new notes has each new
\* note on one unlocked finger, no finger with two notes, and exactly k + m
\* non-free fingers: every finger neither locked nor newly assigned is free
\* and holds no button and no pitch.
Cex_C14 ==
    gDepth >= 1 =>
        /\ Cardinality(UsedFingers) = Len(gEvent.notes)
        /\ \A k \in NewIdx(gEvent) :
              gAssign[gEvent.notes[k].midi] \notin locked_fingers(gPrev, gEvent)
        /\ Cardinality(ActiveFingers(gNode.fingers)) = Len(gEvent.notes)
        /\ \A i \in 1..Len(gNode.fingers) :
              i \notin UsedFingers =>
                  /\ gNode.fingers[i].status = "free"
                  /\ gNode.fingers[i].button = NoButton
                  /\ gNode.fingers[i].midi_note = NoPitch

\* the layout, written out: the candidate buttons of each pitch
LayoutTable == {<<60, <<2, 5>>>>, <<62, <<5, 6>>>>, <<62, <<3, 14>>>>, <<64, <<2, 14>>>>}

\* C15: the button a newly assigned finger presses is one of the layout's
\* candidate buttons for the pitch of its note.
Thm_C15 ==
    gDepth >= 1 =>
        \A k \in NewIdx(gEvent) :
            LET p == gEvent.notes[k].midi
                f == gNode.fingers[gAssign[p]]
            IN  /\ f.status = "pressing"
                /\ f.midi_note = p
                /\ <<p, f.button>> \in LayoutTable

\* two new notes with different candidates, one of them with two candidates
Witness_C15 ==
    /\ gDepth >= 1
    /\ Cardinality(NewIdx(gEvent)) = 2
    /\ \E k \in NewIdx(gEvent) :
          /\ Cardinality(getPhysicalButtonOptions(gEvent.notes[k].midi).value) = 2
          /\ gNode.fingers[gAssign[gEvent.notes[k].midi]].button = <<5, 6>>

\* Scenario A: one event with the single new note 60
ScenarioA == <<Event(<<Note(60, FALSE)>>, "null", FALSE)>>

\* C16: for the single note 60 on button (2, 5), every edge from the start
\* node costs sqrt(15^2 + 90^2) + 1 * 2.0 = 93.24, and that is the total cost
\* of the solution returned.
Cex_C16 ==
    (Done /\ events = ScenarioA) =>
        /\ generateSuccessors(start_node(events), events[1]).value # {}
        /\ \A nb \in generateSuccessors(start_node(events), events[1]).value :
              calculateEdgeCost(start_node(events), nb, events[1]) = 9324
        /\ result.kind = "solution"
        /\ result.total_cost = 9324

\* C20: a popped non-goal node whose hash has a closed entry with g less than
\* or equal to its own is skipped and not expanded; one with a strictly lower
\* g than the entry replaces it and is expanded; so the g recorded for a hash
\* never increases.
Thm_C20 ==
    [][/\ \A c \in closed_set :
             \E d \in closed_set' : d[1] = c[1] /\ d[2].g_score <= c[2].g_score
       /\ (\E c \in closed_set : /\ c[1] = calculateHash(visit'.node)
                                  /\ c[2].g_score <= visit'.node.g_score)
             => /\ visit'.skipped
                /\ closed_set' = closed_set
                /\ expansions' = expansions
       /\ (\E c \in closed_set : /\ c[1] = calculateHash(visit'.node)
                                  /\ c[2].g_score > visit'.node.g_score)
             => /\ ~visit'.skipped
                /\ <<calculateHash(visit'.node), visit'.node>> \in closed_set'
                /\ \A d \in closed_set' :
                      d[1] = calculateHash(visit'.node) => d[2] = visit'.node
                /\ expansions' = expansions + 1]_vars

\* a node cheaper than the entry of its hash has replaced it, after an
\* earlier node was skipped
Witness_C20 ==
    /\ visit.has_entry
    /\ visit.recorded_g > visit.node.g_score
    /\ ~visit.skipped
    /\ expansions < visits
    /\ <<calculateHash(visit.node), visit.node>> \in closed_set

\* the loop of one invocation run on its own to its end
RECURSIVE RunLoop(_, _, _)
RunLoop(evs, open, closed) ==
    IF open = {} THEN FAILURE
    ELSE LET current_node == CHOOSE n \in LowestF(open) : TRUE
             rest         == open \ {current_node}
         IN  IF IsGoal(current_node, evs) THEN Solution(current_node)
             ELSE IF AlreadyClosed(current_node, closed) THEN RunLoop(evs, rest, closed)
             ELSE IF ButtonExpansionFails(current_node, evs[current_node.time_index + 2])
             THEN Raised("UnmappablePitchError")
             ELSE RunLoop(evs, rest \cup Pushed(current_node, evs),
                          ClosedAdd(closed, current_node))

ResultAlone(evs) == RunLoop(evs, {start_node(evs)}, {})

\* C17: two invocations, in any interleaving, each use their own open set
\* and closed set: a step of one leaves the sets of the other as they were,
\* no node of one is in a set of the other, and each returns the result it
\* returns when run alone.
Thm_C17 ==
    [][/\ \A j \in CallIds :
             j # last_call' =>
                 /\ queues'[calls[j].open_ref] = queues[calls[j].open_ref]
                 /\ maps'[calls[j].closed_ref] = maps[calls[j].closed_ref]
       /\ \A i \in CallIds : \A j \in CallIds :
             (i # j /\ calls'[i].pc # "init" /\ calls'[j].pc # "init") =>
                 /\ calls'[i].open_ref # calls'[j].open_ref
                 /\ calls'[i].closed_ref # calls'[j].closed_ref
       /\ \A i \in CallIds :
             calls'[i].pc = "done" => calls'[i].result = ResultAlone(calls'[i].events)]_vars

\* both invocations were given the same events, ran interleaved and ended
\* after each had closed the start node
Witness_C17 ==
    /\ \A i \in CallIds : calls[i].pc = "done"
    /\ calls[1].events = calls[2].events
    /\ calls[1].events # <<>>
    /\ \A i \in CallIds : maps[calls[i].closed_ref] # {}

\* C21: the bellows discount is applied to the transition into an event only
\* if the event names a direction other than the one in force after the event
\* before it (the starting state for the first event), and each generated
\* node carries the direction of the event it accounts for.
Cex_C21 ==
    gDepth >= 1 =>
        /\ BellowsChanged(gPrev, gEvent) <=>
               (/\ gEvent.bellows_direction # "null"
                /\ gEvent.bellows_direction # gBellows)
        /\ gEvent.bellows_direction # "null" =>
               gNode.bellows_state = gEvent.bellows_direction

\* the pieces of the cost of the last transition, in hundredths
PartA ==
    distance(gPrev, gNode) * 1
    + (Abs(gPrev.centroid_row - gNode.centroid_row) * 2 * 100) \div 60

\* the pivot factor, in tenths
PartP ==
    IF \E i \in 1..5 : /\ gPrev.fingers[i].status # "free"
                        /\ gNode.fingers[i].status # "free"
                        /\ gPrev.fingers[i].button = gNode.fingers[i].button
    THEN 5 ELSE 10

\* the bellows factor, in tenths
PartB ==
    IF gEvent.bellows_direction # "null" /\ gEvent.bellows_direction # gPrev.bellows_state
    THEN 3 ELSE 10

\* pairs of non-free fingers i < j with finger i on a strictly higher column
Crossed ==
    {p \in (1..5) \X (1..5) :
        /\ p[1] < p[2]
        /\ gNode.fingers[p[1]].status # "free"
        /\ gNode.fingers[p[2]].status # "free"
        /\ gNode.fingers[p[1]].button[2] > gNode.fingers[p[2]].button[2]}

PartCrossing == Cardinality(Crossed) * 50 * 100

PartWeakness ==
    IF gEvent.is_downbeat
    THEN LET w == <<0, 0, 10, 80, 40>>
             t(i) == IF gNode.fingers[i].status # "free" THEN w[i] ELSE 0
         IN  t(1) + t(2) + t(3) + t(4) + t(5)
    ELSE 0

\* C22: the edge cost is max(0, A x P x B + K): the additive cost A scaled by
\* the pivot factor P and the bellows factor B, plus the penalties K, which
\* no factor scales.
Thm_C22 ==
    gDepth >= 1 =>
        gCost = Max0((PartA * PartP * PartB) \div 100 + PartCrossing + PartWeakness)

\* a transition with both factors below one and both penalties above zero
Witness_C22 ==
    /\ gDepth >= 2
    /\ PartP = 5
    /\ PartB = 3
    /\ PartCrossing > 0
    /\ PartWeakness > 0
    /\ PartA > 0

\* C24: the crossing penalty, severity x PENALTY_CROSSING, is part of an
\* edge's cost exactly when the next node has two non-free fingers i < j with
\* finger i on a strictly higher column; equal columns and free fingers add
\* nothing.
Thm_C24 ==
    gDepth >= 1 =>
        LET uncrossed == (PartA * PartP * PartB) \div 100 + PartWeakness
        IN  /\ Crossed # {} => /\ gCost > uncrossed
                               /\ gCost - uncrossed = Cardinality(Crossed) * 50 * 100
            /\ Crossed = {} => gCost = uncrossed

\* a crossed pair next to a pair on equal columns, other fingers free
Witness_C24 ==
    /\ gDepth >= 1
    /\ Crossed # {}
    /\ \E i \in 1..5 : \E j \in 1..5 :
          /\ i < j
          /\ gNode.fingers[i].status # "free"
          /\ gNode.fingers[j].status # "free"
          /\ gNode.fingers[i].button[2] = gNode.fingers[j].button[2]
    /\ \E i \in 1..5 : gNode.fingers[i].status = "free"

\* C26: for an empty event sequence the first pop is the goal: the result is
\* a solution of zero events and total cost 0, not NoFeasiblePath, and no
\* node is expanded.
Thm_C26 ==
    (Done /\ events = <<>>) =>
        /\ result.kind = "solution"
        /\ result.path = <<>>
        /\ result.total_cost = 0
        /\ expansions = 0
        /\ closed_set = {}

Witness_C26 ==
    /\ Done
    /\ events = <<>>
    /\ result.kind = "solution"
    /\ open_set = {}

\* the nodes generated along chains of exactly k successors from the start
\* node, over the events the chains are extended with; each with the node it
\* was generated from (none for the start node) and the event it was
\* generated for
RECURSIVE ChainEntries(_)
ChainEntries(k) ==
    IF k = 0 THEN {[node |-> start_node(<<>>), from |-> <<>>, event |-> NoEvent]}
    ELSE UNION {{[node |-> nx, from |-> <<e.node>>, event |-> ev] :
                    nx \in generateSuccessors(e.node, ev).value} :
                  e \in ChainEntries(k - 1),
                  ev \in {x \in EventPool :
                            Cardinality(NewIdx(x)) < 2 \/ k - 1 < MaxChordDepth}}

\* every generated node with its state hash, its origin and its event
HashedEntries ==
    {<<calculateHash(e.node), e.node, e.from, e.event>> :
        e \in UNION {ChainEntries(k) : k \in 0..MaxChain}}

\* the generated nodes, sorted by the fingers that are not free
EntriesByFingers ==
    [S \in SUBSET FingerIdx |->
        {p \in HashedEntries : ActiveFingers(p[2].fingers) = S}]

\* the node the current node was generated from
gFrom == IF gDepth = 0 THEN <<>> ELSE <<gPrev>>

\* the nodes generated elsewhere (from another node or for another event)
\* with the state hash of the current node
SameHashElsewhere ==
    {p[2] : p \in {q \in EntriesByFingers[ActiveFingers(gNode.fingers)] :
                      /\ q[1] = calculateHash(gNode)
                      /\ <<q[3], q[4]>> # <<gFrom, gEvent>>}}

Cex_C27 ==
    [][\A j \in PollIds :
          promise[j] # "pending" =>
              (progress'[j] = progress[j] /\ loads'[j] = loads[j])]_vars

\* C28: at most one call of handleFile is between its start and its return
\* at any time.
Cex_C28 == Cardinality(InFlight) <= 1

\* C29: state.isProcessing of the upload page is false whenever no run of
\* handleProcess is in flight.
Cex_C29 == run = "idle" => ~appState.isProcessing

\* C30: at most one interval set by startTimeUpdate is live at any time.
Cex_C30 == timers <= 1

====
